---------------------------- MODULE Spec2Model ----------------------------
(***************************************************************************)
(* Wei25519 point arithmetic (curve25519-dalek/src/weierstrass.rs) and the *)
(* W25519 Diffie-Hellman surface (w25519/src/w25519.rs).                   *)
(*                                                                         *)
(* Scale.  TLC has 32-bit integers, so the field GF(2^255 - 19) is modelled *)
(* by GF(2^7 - 19) = GF(109) and the Montgomery curve                      *)
(* v^2 = u^3 + 486662 u^2 + u by v^2 = u^3 + 71 u^2 + u over GF(109).      *)
(* The small curve was chosen to have the structure of Curve25519:         *)
(*   - group order 8 * l with l prime (104 = 8 * 13), twist cofactor 4;    *)
(*   - p = 5 (mod 8), A^2 - 4 a non-square: (0, 0) is the only point of    *)
(*     order 2, u = 1 has order 4;                                         *)
(*   - b is a square, so x = 0 is the abscissa of a finite point of        *)
(*     Wei25519, and that point is not in the subgroup of order l;         *)
(*   - a coordinate is an array one bit wider than the field (32 bytes =   *)
(*     256 bits there, FieldBits + 1 bits here); decoding drops the top    *)
(*     bit and reduces, so 0..18 have a second encoding p..p+18 and the    *)
(*     all-ones array decodes to 18;                                       *)
(*   - a scalar has ScalarBits bits (256 there), the multiplication scans  *)
(*     ScalarBits - 1 of them, clamping sets bit ScalarBits - 2, and no    *)
(*     clamped scalar is a multiple of l.                                  *)
(* A byte array is modelled by the little-endian integer it encodes.       *)
(***************************************************************************)
EXTENDS Integers, Naturals, Sequences, FiniteSets, TLC

VARIABLES
    pc,       \* position of the operation under way
    k,        \* scalar bytes given to the operation (a)
    k2,       \* second scalar bytes (b of the key exchange)
    P1,       \* first point operand (or the (u, v) pair of the map)
    P2,       \* second point operand
    R,        \* result of the operation
    R2,       \* second result (the other side, the reference)
    flag,     \* boolean or Choice result
    acc,      \* Mul: the accumulator
    p,        \* Mul: the running power-of-two multiple
    i,        \* Mul: the loop index
    trace,    \* the operations executed so far
    sk        \* the secret key object: its kind, its scalar bytes, whether it is owned

vars == <<pc, k, k2, P1, P2, R, R2, flag, acc, p, i, trace, sk>>

---------------------------------------------------------------------------
(* field::FieldElement: GF(p), 32-byte little-endian encoding              *)

FieldBits == 7

PRIME == 2^FieldBits - 19

\* the values of a coordinate array ([u8; 32])
Bytes == 0 .. (2^(FieldBits + 1) - 1)

Field == 0 .. (PRIME - 1)

\* FieldElement::from_bytes: the top bit is ignored, the rest is a residue
FromBytes(b) == (b % 2^FieldBits) % PRIME

\* FieldElement::to_bytes: the canonical representative
ToBytes(f) == f % PRIME

FeAdd(a, b) == (a + b) % PRIME

FeSub(a, b) == (a + PRIME - (b % PRIME)) % PRIME

FeMul(a, b) == (a * b) % PRIME

FeSquare(a) == FeMul(a, a)

RECURSIVE FePow(_, _)
FePow(a, e) ==
    IF e = 0 THEN 1
    ELSE LET h == FePow(a, e \div 2)
         IN  IF e % 2 = 0 THEN FeSquare(h) ELSE FeMul(FeSquare(h), a)

\* a^(p-2) for every residue, computed once
InvertTable == [a \in Field |-> FePow(a, PRIME - 2)]

\* FieldElement::invert: Fermat exponentiation, invert(0) = 0
FeInvert(a) == InvertTable[a % PRIME]

\* subtle::Choice is 0 or 1
ChoiceAnd(c, d) == c * d

ChoiceNot(c) == 1 - c

\* FieldElement::ct_eq compares the canonical encodings
FeCtEq(a, b) == IF ToBytes(a) = ToBytes(b) THEN 1 ELSE 0

\* conditional_select(a, b, choice): b iff choice = 1
FeSelect(a, b, c) == IF c = 1 THEN b ELSE a

---------------------------------------------------------------------------
(* curve constants                                                         *)

\* Montgomery A (486662 there)
MONTGOMERY_A == 71

\* Weierstrass a = 1 - A^2/3
WEI25519_A == 101

\* delta = A/3
DELTA == 60

\* X25519 base point (u = 9 there): a point of order l
X25519_BASEPOINT_U == 73

X25519_BASEPOINT_V == 31

WEI25519_G_X == 24

WEI25519_G_Y == X25519_BASEPOINT_V

\* order of the base point
BASEPOINT_ORDER == 13

Pt(x, y) == [x |-> x, y |-> y]

WEI25519_BASEPOINT == Pt(WEI25519_G_X, WEI25519_G_Y)

---------------------------------------------------------------------------
(* WeierstrassPoint                                                        *)

\* WeierstrassPoint::default / Identity::identity
Default == Pt(0, 0)

x_ct_eq(self, other) == FeCtEq(FromBytes(self.x), FromBytes(other.x))

y_ct_eq(self, other) == FeCtEq(FromBytes(self.y), FromBytes(other.y))

at_infinity(self) == ChoiceAnd(x_ct_eq(self, Default), y_ct_eq(self, Default))

\* mutant: equality of the byte arrays
ct_eq_bytes(self, other) ==
    IF self.x = other.x /\ self.y = other.y THEN 1 ELSE 0

\* ConstantTimeEq for WeierstrassPoint
ct_eq(self, other) ==
    LET self_x_fe  == FromBytes(self.x)
        self_y_fe  == FromBytes(self.y)
        other_x_fe == FromBytes(other.x)
        other_y_fe == FromBytes(other.y)
    IN  ChoiceAnd(FeCtEq(self_x_fe, other_x_fe), FeCtEq(self_y_fe, other_y_fe))

\* PartialEq for WeierstrassPoint
eq(self, other) == ct_eq(self, other) = 1

\* IsIdentity (blanket implementation): ct_eq with identity()
is_identity(self) == ct_eq(self, Default) = 1

\* ConditionallySelectable for WeierstrassPoint
conditional_select(a, b, choice) ==
    Pt(ToBytes(FeSelect(FromBytes(a.x), FromBytes(b.x), choice)),
       ToBytes(FeSelect(FromBytes(a.y), FromBytes(b.y), choice)))

\* WeierstrassPoint::to_bytes: x || y
to_bytes(self) == <<self.x, self.y>>

\* WeierstrassPoint::from_montgomery
from_montgomery(u, v) ==
    IF u = 0
    THEN Pt(0, v)
    ELSE Pt(ToBytes(FeAdd(FromBytes(u), FromBytes(DELTA))), v)

\* mutant: delta is added instead of subtracted
into_montgomery_plus(self) ==
    IF self.x = 0
    THEN <<self.x, self.y>>
    ELSE <<ToBytes(FeAdd(FromBytes(self.x), FromBytes(DELTA))), self.y>>

\* WeierstrassPoint::into_montgomery
into_montgomery(self) ==
    IF self.x = 0
    THEN <<self.x, self.y>>
    ELSE <<ToBytes(FeSub(FromBytes(self.x), FromBytes(DELTA))), self.y>>

\* WeierstrassPoint::into_montgomery_compressed
into_montgomery_compressed(self) == into_montgomery(self)[1]

\* s = (3*x1^2+a)/(2*y1)
DoublingSlope(self) ==
    LET x1   == FromBytes(self.x)
        y1   == FromBytes(self.y)
        x1s  == FeSquare(x1)
        x1s3 == FeAdd(FeAdd(x1s, x1s), x1s)
        a_fe == FromBytes(WEI25519_A)
    IN  FeMul(FeAdd(x1s3, a_fe), FeInvert(FeAdd(y1, y1)))

\* mutant: the chord slope multiplies by x2-x1 where it should divide
ChordSlopeUninverted(self, rhs) ==
    FeMul(FeSub(FromBytes(rhs.y), FromBytes(self.y)),
          FeSub(FromBytes(rhs.x), FromBytes(self.x)))

\* r = (y2-y1)/(x2-x1)
ChordSlope(self, rhs) ==
    LET x1 == FromBytes(self.x)
        y1 == FromBytes(self.y)
        x2 == FromBytes(rhs.x)
        y2 == FromBytes(rhs.y)
    IN  FeMul(FeSub(y2, y1), FeInvert(FeSub(x2, x1)))

\* if x1 = x2 AND y1 = y2: u := s else: u := r
SelectSlope(self, rhs) ==
    FeSelect(ChordSlope(self, rhs), DoublingSlope(self),
             ChoiceAnd(x_ct_eq(self, rhs), y_ct_eq(self, rhs)))

\* at_infinity1
LeftInfinity(self, rhs) == at_infinity(self)

\* mutant: the right-infinity mask is left out
RightInfinityForgotten(self, rhs) == 0

\* at_infinity2 = rhs.at_infinity() & !at_infinity1
RightInfinity(self, rhs) ==
    ChoiceAnd(at_infinity(rhs), ChoiceNot(LeftInfinity(self, rhs)))

\* x_eq &= !at_infinity1 & !at_infinity2 & !y_eq
VerticalLine(self, rhs) ==
    ChoiceAnd(x_ct_eq(self, rhs),
      ChoiceAnd(ChoiceNot(LeftInfinity(self, rhs)),
        ChoiceAnd(ChoiceNot(RightInfinity(self, rhs)),
                  ChoiceNot(y_ct_eq(self, rhs)))))

\* Add for WeierstrassPoint: the unified affine addition
Add(self, rhs) ==
    LET x1  == FromBytes(self.x)
        y1  == FromBytes(self.y)
        x2  == FromBytes(rhs.x)
        y2  == FromBytes(rhs.y)
        u   == SelectSlope(self, rhs)
        x3a == FeSub(FeSub(FeSquare(u), x1), x2)
        y3a == FeSub(FeMul(u, FeSub(x1, x3a)), y1)
        at_infinity1 == LeftInfinity(self, rhs)
        x3b == FeSelect(x3a, x2, at_infinity1)
        y3b == FeSelect(y3a, y2, at_infinity1)
        at_infinity2 == RightInfinity(self, rhs)
        x3c == FeSelect(x3b, x1, at_infinity2)
        y3c == FeSelect(y3b, y1, at_infinity2)
        x_eq == VerticalLine(self, rhs)
        x3  == FeSelect(x3c, 0, x_eq)
        y3  == FeSelect(y3c, 0, x_eq)
    IN  Pt(ToBytes(x3), ToBytes(y3))

\* mutant: the doubling of a point at infinity hands the operand back
double_returning_self_at_infinity(self) ==
    IF at_infinity(self) = 1 THEN self ELSE Add(self, self)

\* WeierstrassPoint::double
double(self) == Add(self, self)

\* mutant: equal x always gives the identity, the doubling case is missing
add_not_constant_time_without_doubling(self, rhs) ==
    IF at_infinity(self) = 1 THEN rhs
    ELSE IF at_infinity(rhs) = 1 THEN self
    ELSE IF x_ct_eq(self, rhs) = 1 THEN Default
    ELSE LET x1 == FromBytes(self.x)
             y1 == FromBytes(self.y)
             x2 == FromBytes(rhs.x)
             y2 == FromBytes(rhs.y)
             u  == FeMul(FeSub(y2, y1), FeInvert(FeSub(x2, x1)))
             x3 == FeSub(FeSub(FeSquare(u), x1), x2)
             y3 == FeSub(FeMul(u, FeSub(x1, x3)), y1)
         IN  Pt(ToBytes(x3), ToBytes(y3))

\* WeierstrassPoint::add_not_constant_time: early returns hand back the
\* operand as it is, bytes included
add_not_constant_time(self, rhs) ==
    IF at_infinity(self) = 1 THEN rhs
    ELSE IF at_infinity(rhs) = 1 THEN self
    ELSE IF x_ct_eq(self, rhs) = 1
         THEN IF y_ct_eq(self, rhs) = 1 THEN double(self) ELSE Default
    ELSE LET x1 == FromBytes(self.x)
             y1 == FromBytes(self.y)
             x2 == FromBytes(rhs.x)
             y2 == FromBytes(rhs.y)
             u  == FeMul(FeSub(y2, y1), FeInvert(FeSub(x2, x1)))
             x3 == FeSub(FeSub(FeSquare(u), x1), x2)
             y3 == FeSub(FeMul(u, FeSub(x1, x3)), y1)
         IN  Pt(ToBytes(x3), ToBytes(y3))

---------------------------------------------------------------------------
(* scalar::Scalar and x25519_dalek::clamp_scalar                           *)

\* width of a scalar's byte array in bits (256 there)
ScalarBits == 7

\* the values of a scalar byte array ([u8; 32])
ScalarBytes == 0 .. (2^ScalarBits - 1)

\* a Scalar: its top bit is always clear (Scalar::from_bits, reduction)
Scalars == 0 .. (2^(ScalarBits - 1) - 1)

\* Scalar::bits()[j]
bits(scalar, j) == (scalar \div 2^j) % 2

\* clamp_scalar: clear the low 3 bits, clear the top bit, set the bit below it
clamp_scalar(b) ==
    LET low  == b - (b % 8)
        high == low % 2^(ScalarBits - 1)
    IN  IF bits(high, ScalarBits - 2) = 1 THEN high
        ELSE high + 2^(ScalarBits - 2)

---------------------------------------------------------------------------
(* Mul<&Scalar> for &WeierstrassPoint                                      *)

\* for i in 0..255: the number of iterations
LoopBound(scalar) == ScalarBits - 1

\* mutant: the signed-digit draft, bits[i + 1] ^ bits[i]
ChoiceBitXor(scalar, j) == (bits(scalar, j + 1) + bits(scalar, j)) % 2

\* bits[i] as u8
ChoiceBit(scalar, j) == bits(scalar, j)

\* mutant: the add is skipped when the bit is 0
IterOpsSkipZero(choice) ==
    IF choice = 1 THEN <<"conditional_assign", "add", "double">>
    ELSE <<"double">>

\* the operations of one iteration of the loop body, in order
IterOps(choice) == <<"conditional_assign", "add", "double">>

\* one operation of the loop body on the loop's locals
ExecOp(op, st, choice) ==
    CASE op = "conditional_assign" ->
           [st EXCEPT !.a = conditional_select(st.a, st.p, choice)]
      [] op = "add"    -> [st EXCEPT !.acc = Add(st.acc, st.a)]
      [] op = "double" -> [st EXCEPT !.p = double(st.p)]
      [] OTHER         -> st

RECURSIVE ExecOps(_, _, _)
ExecOps(ops, st, choice) ==
    IF ops = <<>> THEN st
    ELSE ExecOps(Tail(ops), ExecOp(Head(ops), st, choice), choice)

\* the loop body: let mut a = default(); a.conditional_assign(&p, choice);
\* acc += a; p = p.double()
LoopBody(scalar, j, acc0, p0) ==
    LET choice == ChoiceBit(scalar, j)
    IN  ExecOps(IterOps(choice), [a |-> Default, acc |-> acc0, p |-> p0], choice)

RECURSIVE MulLoop(_, _, _, _)
MulLoop(scalar, j, acc0, p0) ==
    IF j >= LoopBound(scalar) THEN acc0
    ELSE LET st == LoopBody(scalar, j, acc0, p0)
         IN  MulLoop(scalar, j + 1, st.acc, st.p)

\* point * scalar and scalar * point
Mul(self, scalar) == MulLoop(scalar, 0, Default, self)

---------------------------------------------------------------------------
(* montgomery::MontgomeryPoint * Scalar (the X25519 ladder) and x25519     *)

\* (A + 2) / 4
APLUS2_OVER_FOUR == FeMul(MONTGOMERY_A + 2, FeInvert(4))

differential_add_and_double(PP, QQ, affine_PmQ) ==
    LET t0  == FeAdd(PP.U, PP.W)
        t1  == FeSub(PP.U, PP.W)
        t2  == FeAdd(QQ.U, QQ.W)
        t3  == FeSub(QQ.U, QQ.W)
        t4  == FeSquare(t0)
        t5  == FeSquare(t1)
        t6  == FeSub(t4, t5)
        t7  == FeMul(t0, t3)
        t8  == FeMul(t1, t2)
        t9  == FeAdd(t7, t8)
        t10 == FeSub(t7, t8)
        t11 == FeSquare(t9)
        t12 == FeSquare(t10)
        t13 == FeMul(APLUS2_OVER_FOUR, t6)
        t14 == FeMul(t4, t5)
        t15 == FeAdd(t13, t5)
        t16 == FeMul(t6, t15)
        t17 == FeMul(affine_PmQ, t12)
        t18 == t11
    IN  <<[U |-> t14, W |-> t16], [U |-> t18, W |-> t17]>>

RECURSIVE LadderLoop(_, _, _, _, _)
LadderLoop(scalar, j, x0, x1, affine_u) ==
    IF j < 0 THEN <<x0, x1>>
    ELSE LET bit == bits(scalar, j)
             in0 == IF bit = 1 THEN x1 ELSE x0
             in1 == IF bit = 1 THEN x0 ELSE x1
             out == differential_add_and_double(in0, in1, affine_u)
             n0  == IF bit = 1 THEN out[2] ELSE out[1]
             n1  == IF bit = 1 THEN out[1] ELSE out[2]
         IN  LadderLoop(scalar, j - 1, n0, n1, affine_u)

\* MontgomeryPoint * Scalar, then ProjectivePoint::to_affine: U / W
MontgomeryMul(u, scalar) ==
    LET affine_u == FromBytes(u)
        res == LadderLoop(scalar, ScalarBits - 2,
                          [U |-> 1, W |-> 0], [U |-> affine_u, W |-> 1],
                          affine_u)
    IN  ToBytes(FeMul(res[1].U, FeInvert(res[1].W)))

\* x25519_dalek::x25519
x25519(kb, u) == MontgomeryMul(u, clamp_scalar(kb))

---------------------------------------------------------------------------
(* w25519.rs: the Diffie-Hellman surface and the byte-oriented function    *)

\* mutant: the bytes are stored as given
StaticSecret_from_unclamped(b) == b

\* From<[u8; 32]> for StaticSecret, StaticSecret::new
StaticSecret_from(b) == clamp_scalar(b)

\* From<&StaticSecret> for PublicKey
PublicKey_from(secret) == Mul(WEI25519_BASEPOINT, secret)

\* StaticSecret::diffie_hellman
diffie_hellman(secret, their_public) == Mul(their_public, secret)

\* mutant: the negation is dropped
was_contributory_inverted(shared) == is_identity(shared)

\* SharedSecret::was_contributory
was_contributory(shared) == ~is_identity(shared)

\* w25519(k, u, v)
w25519(kb, u, v) == into_montgomery(Mul(from_montgomery(u, v), clamp_scalar(kb)))

\* a secret key object: EphemeralSecret, ReusableSecret or StaticSecret wrap a
\* Scalar; owned is false once the object has been moved or dropped
SecretObject(kind, scalar) == [kind |-> kind, bytes |-> scalar, owned |-> TRUE]

\* no secret constructed yet
NoSecret == [kind |-> "none", bytes |-> 0, owned |-> FALSE]

\* EphemeralSecret::new(csprng), b the bytes filled by the generator
EphemeralSecret_new(b) == SecretObject("Ephemeral", clamp_scalar(b))

\* ReusableSecret::new(csprng)
ReusableSecret_new(b) == SecretObject("Reusable", clamp_scalar(b))

\* StaticSecret::to_bytes
StaticSecret_to_bytes(self) == self.bytes

\* derive(Zeroize): the scalar bytes are overwritten with zeros
zeroize(self) == [self EXCEPT !.bytes = 0]

\* zeroize(drop): the destructor zeroizes, the object is gone
drop(self) == [zeroize(self) EXCEPT !.owned = FALSE]

\* mutant: diffie_hellman borrows the ephemeral secret
EphemeralSecret_diffie_hellman_borrowing(self, their_public) ==
    [shared |-> Mul(their_public, self.bytes), self |-> self]

\* EphemeralSecret::diffie_hellman(self, their_public): self is moved into
\* the call and dropped when it returns
EphemeralSecret_diffie_hellman(self, their_public) ==
    [shared |-> Mul(their_public, self.bytes), self |-> drop(self)]

\* ReusableSecret::diffie_hellman(&self, their_public)
ReusableSecret_diffie_hellman(self, their_public) ==
    [shared |-> Mul(their_public, self.bytes), self |-> self]

\* StaticSecret::diffie_hellman(&self, their_public), on the object
StaticSecret_diffie_hellman(self, their_public) ==
    [shared |-> diffie_hellman(self.bytes, their_public), self |-> self]

---------------------------------------------------------------------------
(* inputs                                                                  *)

\* residues 0 .. MaxSampleResidue are sampled in all their encodings
MaxSampleResidue == 2

\* the byte arrays that decode to f
EncodingsOf(f) == {b \in Bytes : FromBytes(b) = f}

SampleCoords == UNION {EncodingsOf(f) : f \in 0 .. MaxSampleResidue}

SamplePoints == {Pt(a, b) : a \in SampleCoords, b \in SampleCoords}

\* v^2 = u^3 + A u^2 + u
OnMontgomery(u, v) ==
    FeSquare(v) = FeAdd(FeAdd(FeMul(FeSquare(u), u),
                              FeMul(MONTGOMERY_A, FeSquare(u))), u)

MontgomeryCurve == {uv \in Field \X Field : OnMontgomery(uv[1], uv[2])}

\* the finite points of Wei25519, canonically encoded: (u + delta, v)
WeierstrassCurve == {Pt(FeAdd(uv[1], DELTA), uv[2]) : uv \in MontgomeryCurve}

\* every encoding of the point
EncodingsOfPoint(Q) ==
    {Pt(a, b) : a \in EncodingsOf(FromBytes(Q.x)), b \in EncodingsOf(FromBytes(Q.y))}

\* every encoding of O
IdentityEncodings == EncodingsOfPoint(Default)

\* -P = (P.x, p - P.y)
Neg(Q) == Pt(Q.x, PRIME - FromBytes(Q.y))

\* multiples of the base point: the subgroup of order l
RECURSIVE Multiples(_, _)
Multiples(Q, n) ==
    IF n = 0 THEN {} ELSE {Mul(Q, n)} \cup Multiples(Q, n - 1)

PrimeSubgroup == Multiples(WEI25519_BASEPOINT, BASEPOINT_ORDER - 1)

InversePairs ==
    UNION {{<<E, Neg(E)>> : E \in EncodingsOfPoint(Q)} : Q \in WeierstrassCurve}

IdentityPairs ==
    LET Others == SamplePoints \cup WeierstrassCurve \cup IdentityEncodings
    IN  (Others \X IdentityEncodings) \cup (IdentityEncodings \X Others)

CurvePairs == WeierstrassCurve \X WeierstrassCurve

EqualityPairs ==
    LET Ys == {<<0, 0>>, <<18, 255>>, <<1, 2>>}
        Cs == SampleCoords \cup EncodingsOf(18)
    IN  {<<Pt(a, cd[1]), Pt(b, cd[2])>> : a \in Bytes, b \in Cs, cd \in Ys}
        \cup
        {<<Pt(cd[1], a), Pt(cd[2], b)>> : a \in Bytes, b \in Cs, cd \in Ys}

PairInputs == InversePairs \cup IdentityPairs \cup CurvePairs \cup EqualityPairs

\* on the curve, O in every encoding, and off the curve in some encodings
MulPoints ==
    WeierstrassCurve \cup IdentityEncodings
    \cup {Pt(a, 2) : a \in SampleCoords}

---------------------------------------------------------------------------
(* the group operations: add, double, equality, scalar multiplication      *)

InitPair ==
    /\ pc = "pair"
    /\ \E pq \in PairInputs : P1 = pq[1] /\ P2 = pq[2]
    /\ k = 0 /\ k2 = 0 /\ R = Default /\ R2 = Default /\ flag = FALSE
    /\ acc = Default /\ p = Default /\ i = 0 /\ trace = <<>>
    /\ sk = NoSecret

InitMul ==
    /\ pc = "mul"
    /\ k \in Scalars
    /\ P1 \in MulPoints
    /\ k2 = 0 /\ P2 = Default /\ R = Default /\ R2 = Default /\ flag = FALSE
    /\ acc = Default /\ p = Default /\ i = 0 /\ trace = <<>>
    /\ sk = NoSecret

\* P1 + P2
DoAdd ==
    /\ pc = "pair"
    /\ R' = Add(P1, P2)
    /\ pc' = "added"
    /\ UNCHANGED <<k, k2, P1, P2, R2, flag, acc, p, i, trace, sk>>

\* P1.double()
DoDouble ==
    /\ pc = "pair"
    /\ R' = double(P1)
    /\ pc' = "doubled"
    /\ UNCHANGED <<k, k2, P1, P2, R2, flag, acc, p, i, trace, sk>>

\* P1 == P2
DoEq ==
    /\ pc = "pair"
    /\ flag' = eq(P1, P2)
    /\ pc' = "compared"
    /\ UNCHANGED <<k, k2, P1, P2, R, R2, acc, p, i, trace, sk>>

\* mul: let mut acc = default(); let mut p = *self; bits = scalar.bits()
MulBegin ==
    /\ pc = "mul"
    /\ acc' = Default
    /\ p' = P1
    /\ i' = 0
    /\ trace' = <<>>
    /\ pc' = "loop"
    /\ UNCHANGED <<k, k2, P1, P2, R, R2, flag, sk>>

\* one iteration of for i in 0..255
MulIter ==
    /\ pc = "loop"
    /\ i < LoopBound(k)
    /\ LET st == LoopBody(k, i, acc, p)
       IN  /\ acc' = st.acc
           /\ p' = st.p
    /\ trace' = trace \o IterOps(ChoiceBit(k, i))
    /\ i' = i + 1
    /\ UNCHANGED <<pc, k, k2, P1, P2, R, R2, flag, sk>>

\* the loop is over: return acc
MulReturn ==
    /\ pc = "loop"
    /\ i >= LoopBound(k)
    /\ R' = acc
    /\ pc' = "done"
    /\ UNCHANGED <<k, k2, P1, P2, R2, flag, acc, p, i, trace, sk>>

NextPair == DoAdd \/ DoDouble \/ DoEq

\* add, double and equality on pairs of points
SpecPair == InitPair /\ [][NextPair]_vars

NextMul == MulBegin \/ MulIter \/ MulReturn

\* scalar multiplication, one loop iteration at a time
SpecMul == InitMul /\ [][NextMul]_vars

\* the operations on the identity: pairs with one operand O, multiples of O
InitIdentity ==
    \/ /\ InitPair
       /\ <<P1, P2>> \in IdentityPairs
    \/ /\ InitMul
       /\ P1 \in IdentityEncodings

NextIdentity == DoAdd \/ DoDouble \/ DoEq \/ MulBegin \/ MulIter \/ MulReturn

SpecIdentity == InitIdentity /\ [][NextIdentity]_vars

---------------------------------------------------------------------------
(* claims about the group operations                                       *)

OnCurve(Q) == Pt(FromBytes(Q.x), FromBytes(Q.y)) \in WeierstrassCurve

\* 2^n * Q by n doublings
RECURSIVE DoubleTimes(_, _)
DoubleTimes(Q, n) == IF n = 0 THEN Q ELSE double(DoubleTimes(Q, n - 1))

\* 2^n * Q for the points multiplied, computed once
PowerOfTwoTable ==
    [Q \in MulPoints |-> [n \in 0 .. (ScalarBits - 1) |-> DoubleTimes(Q, n)]]

PowerOfTwo(Q, n) == PowerOfTwoTable[Q][n]

\* O + bits[0]*Q + bits[1]*2Q + ... + bits[n-1]*2^(n-1)*Q, summed left to right
RECURSIVE BitSum(_, _, _)
BitSum(scalar, Q, n) ==
    IF n = 0 THEN Default
    ELSE Add(BitSum(scalar, Q, n - 1),
             IF (scalar \div 2^(n - 1)) % 2 = 1
             THEN PowerOfTwo(Q, n - 1) ELSE Default)

\* C3: scalar multiplication is the LSB-first double-and-add: after n
\* iterations acc is the sum of bits[j] * 2^j * P over j < n and p is 2^n * P;
\* the value returned is the sum over the ScalarBits - 1 scanned bits.
C3_MulIsLsbFirstDoubleAndAdd ==
    /\ pc = "loop" => /\ acc = BitSum(k, P1, i)
                      /\ p = PowerOfTwo(P1, i)
    /\ pc = "done" => R = BitSum(k, P1, ScalarBits - 1)

C3_Witness ==
    /\ pc = "done"
    /\ k = 2^(ScalarBits - 1) - 3
    /\ P1 = WEI25519_BASEPOINT
    /\ R # Default
    /\ R \in WeierstrassCurve

\* C4: for every finite point P on the curve, P + (-P) = O, -P = (x, p - y)
C4_InverseLaw ==
    (pc = "added" /\ OnCurve(P1) /\ P2 = Neg(P1)) => eq(R, Default)

\* C5: the identity, in any encoding, is neutral for the addition (P + O = P,
\* O + P = P, O + O = O), double(O) = O, and every multiple of O is O.
C5_IdentityNeutral ==
    /\ (pc = "added" /\ at_infinity(P2) = 1) => eq(R, P1)
    /\ (pc = "added" /\ at_infinity(P1) = 1) => eq(R, P2)
    /\ (pc = "added" /\ at_infinity(P1) = 1 /\ at_infinity(P2) = 1) => R = Default
    /\ (pc = "doubled" /\ at_infinity(P1) = 1) => R = Default
    /\ (pc = "loop" /\ at_infinity(P1) = 1) => (acc = Default /\ at_infinity(p) = 1)
    /\ (pc = "done" /\ at_infinity(P1) = 1) => R = Default

C5_Witness ==
    /\ pc = "added"
    /\ P1 = Pt(PRIME + 1, 2)
    /\ P2 = Pt(PRIME, 2^FieldBits)
    /\ R = Pt(1, 2)

\* the trace of n iterations
RECURSIVE UniformTrace(_)
UniformTrace(n) ==
    IF n = 0 THEN <<>>
    ELSE UniformTrace(n - 1) \o <<"conditional_assign", "add", "double">>

\* C6: the operations executed by a scalar multiplication are the same for
\* every scalar and every point: ScalarBits - 1 iterations of one conditional
\* select, one unified add and one doubling.
C6_ConstantTimeTrace ==
    /\ pc = "loop" => trace = UniformTrace(i)
    /\ pc = "done" => /\ i = ScalarBits - 1
                      /\ trace = UniformTrace(ScalarBits - 1)
    /\ \A n \in 1 .. Len(trace) : trace[n] # "add_not_constant_time"

C6_Witness ==
    /\ pc = "done"
    /\ k = 0
    /\ P1 = Default
    /\ Len(trace) = 3 * (ScalarBits - 1)

\* C9: two points are equal iff their coordinates decode to the same field
\* elements, whatever the bytes.
C9_EqualityModP ==
    pc = "compared" =>
        /\ flag <=> (/\ FromBytes(P1.x) = FromBytes(P2.x)
                     /\ FromBytes(P1.y) = FromBytes(P2.y))
        /\ flag <=> (ct_eq(P1, P2) = 1)

C9_Witness ==
    /\ pc = "compared"
    /\ P1 = Pt(18, 18)
    /\ P2 = Pt(2^(FieldBits + 1) - 1, 2^(FieldBits + 1) - 1)
    /\ flag

---------------------------------------------------------------------------
(* the birational map                                                      *)

\* every u (or x) array, with a sample of v (or y) arrays
MapInputs ==
    {Pt(a, b) : a \in Bytes, b \in SampleCoords \cup {X25519_BASEPOINT_V}}

InitMap ==
    /\ pc = "map"
    /\ P1 \in MapInputs
    /\ k = 0 /\ k2 = 0 /\ P2 = Default /\ R = Default /\ R2 = Default
    /\ flag = FALSE /\ acc = Default /\ p = Default /\ i = 0 /\ trace = <<>>
    /\ sk = NoSecret

\* from_montgomery(u, v), with (u, v) = (P1.x, P1.y)
DoFromMontgomery ==
    /\ pc = "map"
    /\ R' = from_montgomery(P1.x, P1.y)
    /\ pc' = "from"
    /\ UNCHANGED <<k, k2, P1, P2, R2, flag, acc, p, i, trace, sk>>

\* into_montgomery of the point just built
DoIntoBack ==
    /\ pc = "from"
    /\ LET uv == into_montgomery(R)
       IN  R2' = Pt(uv[1], uv[2])
    /\ pc' = "from_into"
    /\ UNCHANGED <<k, k2, P1, P2, R, flag, acc, p, i, trace, sk>>

\* P1.into_montgomery()
DoIntoMontgomery ==
    /\ pc = "map"
    /\ LET uv == into_montgomery(P1)
       IN  R' = Pt(uv[1], uv[2])
    /\ pc' = "into"
    /\ UNCHANGED <<k, k2, P1, P2, R2, flag, acc, p, i, trace, sk>>

\* from_montgomery of the pair just built
DoFromBack ==
    /\ pc = "into"
    /\ R2' = from_montgomery(R.x, R.y)
    /\ pc' = "into_from"
    /\ UNCHANGED <<k, k2, P1, P2, R, flag, acc, p, i, trace, sk>>

NextMap == DoFromMontgomery \/ DoIntoBack \/ DoIntoMontgomery \/ DoFromBack

SpecMap == InitMap /\ [][NextMap]_vars

\* C7 as claimed: both round trips return the pair they started from, as
\* field elements, for every pair.
C7_RoundTripEveryPair ==
    (pc = "from_into" \/ pc = "into_from") => eq(R2, P1)

\* C7 amended: into_montgomery(from_montgomery(u, v)) = (u, v) unless u
\* decodes to -delta, and from_montgomery(into_montgomery(P)) = P unless P.x
\* decodes to delta; in these two cases the round trip returns (0, v), (0, y).
C7_RoundTripUnlessCollapsed ==
    /\ (pc = "from_into" /\ FromBytes(P1.x) # FeSub(0, DELTA)) => eq(R2, P1)
    /\ (pc = "from_into" /\ FromBytes(P1.x) = FeSub(0, DELTA)) => R2 = Pt(0, P1.y)
    /\ (pc = "into_from" /\ FromBytes(P1.x) # DELTA) => eq(R2, P1)
    /\ (pc = "into_from" /\ FromBytes(P1.x) = DELTA) => R2 = Pt(0, P1.y)

C7_Witness ==
    /\ pc = "from_into"
    /\ P1 = Pt(PRIME, X25519_BASEPOINT_V)
    /\ R = Pt(DELTA, X25519_BASEPOINT_V)
    /\ R2 = Pt(0, X25519_BASEPOINT_V)

\* C8: the special case of the map is decided on the decoded element:
\* from_montgomery(u, v) = (0, v) when u decodes to 0 and (u + delta, v)
\* otherwise, into_montgomery(P) = (0, P.y) when P.x decodes to 0 and
\* (P.x - delta, P.y) otherwise; every encoding of O maps to O.
C8_SpecialCaseOnDecodedElement ==
    /\ pc = "from" =>
         R = IF FromBytes(P1.x) = 0 THEN Pt(0, P1.y)
             ELSE Pt(FeAdd(FromBytes(P1.x), DELTA), P1.y)
    /\ pc = "into" =>
         R = IF FromBytes(P1.x) = 0 THEN Pt(0, P1.y)
             ELSE Pt(FeSub(FromBytes(P1.x), DELTA), P1.y)
    /\ (pc \in {"from", "into"} /\ at_infinity(P1) = 1) => at_infinity(R) = 1

---------------------------------------------------------------------------
(* the key exchange                                                        *)

\* secrets that are already clamped
ClampedSecrets == {b \in ScalarBytes : clamp_scalar(b) = b}

\* secret bytes: every value of the bits above the low three, the low three
\* all clear or all set
SecretBytes == {b \in ScalarBytes : b % 8 \in {0, 7}}

\* a peer's 64 bytes: the points of the curve, points off the curve, O and
\* some points in every encoding
PeerKeys ==
    WeierstrassCurve
    \cup {Pt(a, b) : a \in 0 .. MaxSampleResidue, b \in Field}
    \cup IdentityEncodings \cup SamplePoints

\* two parties with secrets made from the bytes k and k2
InitExchange ==
    /\ pc = "keys"
    /\ k \in SecretBytes
    /\ k2 \in SecretBytes
    /\ P1 = Default /\ P2 = Default /\ R = Default /\ R2 = Default
    /\ flag = FALSE /\ acc = Default /\ p = Default /\ i = 0 /\ trace = <<>>
    /\ sk = NoSecret

\* one party with a secret, given a peer's public key
InitPeer ==
    /\ pc = "peer"
    /\ k \in ClampedSecrets
    /\ P1 \in PeerKeys
    /\ k2 = 0 /\ P2 = Default /\ R = Default /\ R2 = Default
    /\ flag = FALSE /\ acc = Default /\ p = Default /\ i = 0 /\ trace = <<>>
    /\ sk = NoSecret

\* a_pubkey = PublicKey::from(&a_secret), b_pubkey = PublicKey::from(&b_secret)
GenPublic ==
    /\ pc = "keys"
    /\ P1' = PublicKey_from(StaticSecret_from(k))
    /\ P2' = PublicKey_from(StaticSecret_from(k2))
    /\ pc' = "published"
    /\ UNCHANGED <<k, k2, R, R2, flag, acc, p, i, trace, sk>>

\* a_secret.diffie_hellman(&b_pubkey), b_secret.diffie_hellman(&a_pubkey)
Exchange ==
    /\ pc = "published"
    /\ R' = diffie_hellman(StaticSecret_from(k), P2)
    /\ R2' = diffie_hellman(StaticSecret_from(k2), P1)
    /\ pc' = "shared"
    /\ UNCHANGED <<k, k2, P1, P2, flag, acc, p, i, trace, sk>>

\* secret.diffie_hellman(&their_public).was_contributory()
DhPeer ==
    /\ pc = "peer"
    /\ LET shared == diffie_hellman(StaticSecret_from(k), P1)
       IN  /\ R' = shared
           /\ flag' = was_contributory(shared)
    /\ pc' = "peer_shared"
    /\ UNCHANGED <<k, k2, P1, P2, R2, acc, p, i, trace, sk>>

InitDH == InitExchange \/ InitPeer

NextDH == GenPublic \/ Exchange \/ DhPeer

SpecDH == InitDH /\ [][NextDH]_vars

\* C2: both sides of a key exchange between two clamped secrets compute the
\* same point, with the same 64-byte encoding.
C2_DiffieHellmanSymmetry ==
    pc = "shared" => /\ eq(R, R2)
                     /\ to_bytes(R) = to_bytes(R2)

C2_Witness ==
    /\ pc = "shared"
    /\ k = 7
    /\ k2 = 2^ScalarBits - 1
    /\ StaticSecret_from(k) # StaticSecret_from(k2)
    /\ R = R2
    /\ was_contributory(R)

\* a point of the curve whose order divides 8
SmallOrder(Q) ==
    \/ at_infinity(Q) = 1
    \/ FromBytes(Q.y) = 0
    \/ double(Q).y = 0
    \/ double(double(Q)).y = 0

\* C10 as claimed: the shared secret is non-contributory iff the peer's key
\* is the identity; was_contributory is true iff the shared point is not O.
C10_NonContributoryIffIdentityKey ==
    pc = "peer_shared" =>
        /\ (~flag) <=> (at_infinity(P1) = 1)
        /\ flag <=> ~eq(R, Default)

\* C10 amended: the shared secret is non-contributory if the peer's key
\* decodes to the identity, and contributory if the peer's key is a point of
\* the curve whose order does not divide 8 (every non-identity multiple of the
\* base point is one); was_contributory is true iff the shared point is not O.
C10_NonContributoryIfIdentityKey ==
    pc = "peer_shared" =>
        /\ (at_infinity(P1) = 1) => ~flag
        /\ (OnCurve(P1) /\ ~SmallOrder(P1)) => flag
        /\ (P1 \in PrimeSubgroup) => flag
        /\ flag <=> ~eq(R, Default)

C10_Witness ==
    /\ pc = "peer_shared"
    /\ P1 = Pt(PRIME, 2^FieldBits)
    /\ R = Default
    /\ ~flag

---------------------------------------------------------------------------
(* w25519(k, u, v) against x25519(k, u)                                    *)

\* the points of the Montgomery curve; those of small order and the base
\* point in every encoding
MontgomeryInputs ==
    {Pt(uv[1], uv[2]) : uv \in MontgomeryCurve}
    \cup UNION {EncodingsOfPoint(Pt(uv[1], uv[2])) :
                  uv \in {w \in MontgomeryCurve :
                            \/ SmallOrder(Pt(FeAdd(w[1], DELTA), w[2]))
                            \/ w[1] = X25519_BASEPOINT_U}}

InitW ==
    /\ pc = "w"
    /\ k \in SecretBytes
    /\ P1 \in MontgomeryInputs
    /\ k2 = 0 /\ P2 = Default /\ R = Default /\ R2 = Default
    /\ flag = FALSE /\ acc = Default /\ p = Default /\ i = 0 /\ trace = <<>>
    /\ sk = NoSecret

\* w25519(k, u, v), with (u, v) = (P1.x, P1.y)
DoW25519 ==
    /\ pc = "w"
    /\ LET uv == w25519(k, P1.x, P1.y)
       IN  R' = Pt(uv[1], uv[2])
    /\ pc' = "w_done"
    /\ UNCHANGED <<k, k2, P1, P2, R2, flag, acc, p, i, trace, sk>>

\* expected = x25519(k, u)
DoX25519 ==
    /\ pc = "w_done"
    /\ R2' = Pt(x25519(k, P1.x), 0)
    /\ pc' = "w_ref"
    /\ UNCHANGED <<k, k2, P1, P2, R, flag, acc, p, i, trace, sk>>

NextW == DoW25519 \/ DoX25519

SpecW == InitW /\ [][NextW]_vars

\* C1: for every k and every point (u, v) of the Montgomery curve, the first
\* component of w25519(k, u, v) is x25519(k, u).
C1_MatchesX25519 ==
    pc = "w_ref" => R.x = R2.x

---------------------------------------------------------------------------
(* the life of a secret key object                                         *)

\* operations on one secret object, its construction included
MaxOps == 3

\* the peer's public key
LifePeers == {WEI25519_BASEPOINT, Default}

\* nothing constructed yet; k is what the generator or the caller supplies
InitSecret ==
    /\ pc = "secret"
    /\ k \in ScalarBytes
    /\ P1 \in LifePeers
    /\ k2 = 0 /\ P2 = Default /\ R = Default /\ R2 = Default
    /\ flag = FALSE /\ acc = Default /\ p = Default /\ i = 0 /\ trace = <<>>
    /\ sk = NoSecret

\* let secret = EphemeralSecret::new(csprng)
NewEphemeral ==
    /\ pc = "secret"
    /\ sk' = EphemeralSecret_new(k)
    /\ trace' = <<"new">>
    /\ pc' = "held"
    /\ UNCHANGED <<k, k2, P1, P2, R, R2, flag, acc, p, i>>

\* let secret = ReusableSecret::new(csprng)
NewReusable ==
    /\ pc = "secret"
    /\ sk' = ReusableSecret_new(k)
    /\ trace' = <<"new">>
    /\ pc' = "held"
    /\ UNCHANGED <<k, k2, P1, P2, R, R2, flag, acc, p, i>>

\* let secret = StaticSecret::from(k)
StaticFrom ==
    /\ pc = "secret"
    /\ sk' = SecretObject("Static", StaticSecret_from(k))
    /\ trace' = <<"from">>
    /\ pc' = "held"
    /\ UNCHANGED <<k, k2, P1, P2, R, R2, flag, acc, p, i>>

\* PublicKey::from(&secret): needs a secret that is still owned
PublicKeyOf ==
    /\ pc = "held" /\ sk.owned /\ Len(trace) < MaxOps
    /\ P2' = PublicKey_from(sk.bytes)
    /\ trace' = Append(trace, "public_key")
    /\ UNCHANGED <<pc, k, k2, P1, R, R2, flag, acc, p, i, sk>>

\* secret.diffie_hellman(&their_public) on an EphemeralSecret
DhEphemeral ==
    /\ pc = "held" /\ sk.owned /\ sk.kind = "Ephemeral" /\ Len(trace) < MaxOps
    /\ LET r == EphemeralSecret_diffie_hellman(sk, P1)
       IN  /\ R' = r.shared
           /\ sk' = r.self
    /\ trace' = Append(trace, "diffie_hellman")
    /\ UNCHANGED <<pc, k, k2, P1, P2, R2, flag, acc, p, i>>

\* secret.diffie_hellman(&their_public) on a ReusableSecret
DhReusable ==
    /\ pc = "held" /\ sk.owned /\ sk.kind = "Reusable" /\ Len(trace) < MaxOps
    /\ LET r == ReusableSecret_diffie_hellman(sk, P1)
       IN  /\ R' = r.shared
           /\ sk' = r.self
    /\ trace' = Append(trace, "diffie_hellman")
    /\ UNCHANGED <<pc, k, k2, P1, P2, R2, flag, acc, p, i>>

\* secret.diffie_hellman(&their_public) on a StaticSecret
DhStatic ==
    /\ pc = "held" /\ sk.owned /\ sk.kind = "Static" /\ Len(trace) < MaxOps
    /\ LET r == StaticSecret_diffie_hellman(sk, P1)
       IN  /\ R' = r.shared
           /\ sk' = r.self
    /\ trace' = Append(trace, "diffie_hellman")
    /\ UNCHANGED <<pc, k, k2, P1, P2, R2, flag, acc, p, i>>

\* let bytes = secret.to_bytes() on a StaticSecret
ToBytesStatic ==
    /\ pc = "held" /\ sk.owned /\ sk.kind = "Static" /\ Len(trace) < MaxOps
    /\ k2' = StaticSecret_to_bytes(sk)
    /\ flag' = TRUE
    /\ trace' = Append(trace, "to_bytes")
    /\ UNCHANGED <<pc, k, P1, P2, R, R2, acc, p, i, sk>>

\* secret = StaticSecret::from(bytes), bytes from an earlier to_bytes
StaticReload ==
    /\ pc = "held" /\ sk.kind = "Static" /\ flag /\ Len(trace) < MaxOps
    /\ sk' = SecretObject("Static", StaticSecret_from(k2))
    /\ trace' = Append(trace, "from")
    /\ UNCHANGED <<pc, k, k2, P1, P2, R, R2, flag, acc, p, i>>

\* the secret goes out of scope
DropSecret ==
    /\ pc = "held" /\ sk.owned /\ Len(trace) < MaxOps
    /\ sk' = drop(sk)
    /\ trace' = Append(trace, "drop")
    /\ UNCHANGED <<pc, k, k2, P1, P2, R, R2, flag, acc, p, i>>

NextSecret ==
    \/ NewEphemeral \/ NewReusable \/ StaticFrom
    \/ PublicKeyOf \/ DhEphemeral \/ DhReusable \/ DhStatic
    \/ ToBytesStatic \/ StaticReload \/ DropSecret

SpecSecret == InitSecret /\ [][NextSecret]_vars

\* positions of the diffie_hellman calls among the operations so far
DhCalls == {n \in 1 .. Len(trace) : trace[n] = "diffie_hellman"}

\* C11: an EphemeralSecret takes part in at most one diffie_hellman, which is
\* the last operation on it; after that call, and after any drop of any
\* secret, the object is gone and its scalar bytes are zero, so the secret
\* cannot be read back; Reusable and Static secrets stay owned, with their
\* scalar intact, until they are dropped.
C11_EphemeralConsumedOnce ==
    pc = "held" =>
        /\ sk.kind = "Ephemeral" =>
             /\ Cardinality(DhCalls) <= 1
             /\ DhCalls # {} => /\ trace[Len(trace)] = "diffie_hellman"
                                /\ ~sk.owned
        /\ ~sk.owned => /\ sk.bytes = 0
                        /\ sk.bytes # clamp_scalar(k)
        /\ sk.kind \in {"Reusable", "Static"} =>
             /\ sk.owned <=> trace[Len(trace)] # "drop"
             /\ sk.owned => sk.bytes = clamp_scalar(k)

C11_Witness ==
    /\ pc = "held"
    /\ sk.kind = "Ephemeral"
    /\ trace = <<"new", "public_key", "diffie_hellman">>
    /\ P1 = WEI25519_BASEPOINT
    /\ R # Default
    /\ sk.bytes = 0
    /\ ~sk.owned

\* s is the X25519 clamping of b: low 3 bits cleared, top bit of the array
\* cleared, the bit below it set, every other bit kept
IsClampingOf(s, b) ==
    /\ \A j \in 0 .. 2 : bits(s, j) = 0
    /\ bits(s, ScalarBits - 1) = 0
    /\ bits(s, ScalarBits - 2) = 1
    /\ \A j \in 3 .. (ScalarBits - 3) : bits(s, j) = bits(b, j)

\* C12: StaticSecret::from(b).to_bytes() is the X25519 clamping of b; loading
\* the exported bytes again gives the same secret; the scalar of every owned
\* static secret has its top bit clear and the bit below it set, inside the
\* range of bits the multiplication scans.
C12_StaticSecretClamps ==
    (pc = "held" /\ sk.kind = "Static") =>
        /\ sk.owned => /\ IsClampingOf(sk.bytes, k)
                       /\ sk.bytes < 2^LoopBound(sk.bytes)
                       /\ sk.bytes >= 2^(LoopBound(sk.bytes) - 1)
        /\ flag => /\ IsClampingOf(k2, k)
                   /\ StaticSecret_from(k2) = k2
        /\ (flag /\ sk.owned) => StaticSecret_to_bytes(sk) = k2

C12_Witness ==
    /\ pc = "held"
    /\ sk.kind = "Static"
    /\ k = 2^ScalarBits - 1
    /\ trace = <<"from", "to_bytes", "from">>
    /\ sk.bytes = 2^(ScalarBits - 1) - 8
    /\ sk.owned

---------------------------------------------------------------------------
(* add_not_constant_time against the unified add                           *)

\* P1.add_not_constant_time(&P2), after P1 + P2
DoAddNotConstantTime ==
    /\ pc = "added"
    /\ R2' = add_not_constant_time(P1, P2)
    /\ pc' = "added_both"
    /\ UNCHANGED <<k, k2, P1, P2, R, flag, acc, p, i, trace, sk>>

NextAdds == DoAdd \/ DoAddNotConstantTime

\* both additions on the same pair of points
SpecAdds == InitPair /\ [][NextAdds]_vars

\* C13: for all points P, Q, P.add_not_constant_time(Q) equals P + Q as
\* field-element pairs.
C13_AddNotConstantTimeAgrees ==
    pc = "added_both" =>
        /\ eq(R2, R)
        /\ FromBytes(R2.x) = FromBytes(R.x)
        /\ FromBytes(R2.y) = FromBytes(R.y)

\* an operand with non-canonical bytes is handed back as it is, equal to the
\* canonical result of the unified add
C13_Witness ==
    /\ pc = "added_both"
    /\ P1 = Pt(PRIME, 2^FieldBits)
    /\ P2 = Pt(PRIME + 1, 2)
    /\ R2 = P2
    /\ R = Pt(1, 2)

---------------------------------------------------------------------------
(* the encoding of the points returned                                     *)

\* (P1 + P2).into_montgomery(), P1.double().into_montgomery(),
\* (k * P1).into_montgomery()
DoProject ==
    /\ pc \in {"added", "doubled", "done"}
    /\ LET uv == into_montgomery(R)
       IN  R2' = Pt(uv[1], uv[2])
    /\ pc' = "projected"
    /\ UNCHANGED <<k, k2, P1, P2, R, flag, acc, p, i, trace, sk>>

\* operands in every encoding: pairs for add and double, points for mul
InitReturned ==
    \/ /\ InitPair
       /\ <<P1, P2>> \in InversePairs \cup IdentityPairs \cup CurvePairs
    \/ InitMul

NextReturned ==
    DoAdd \/ DoDouble \/ MulBegin \/ MulIter \/ MulReturn \/ DoProject

SpecReturned == InitReturned /\ [][NextReturned]_vars

\* both coordinate arrays encode an integer in [0, p)
Canonical(Q) == Q.x \in 0 .. (PRIME - 1) /\ Q.y \in 0 .. (PRIME - 1)

\* C14: every point returned by the unified add, by double and by scalar
\* multiplication has both coordinates in canonical form; for these results
\* the byte test of into_montgomery is the test "x decodes to 0", and a
\* result equal to O is the all-zero encoding.
C14_ReturnedPointsCanonical ==
    /\ pc \in {"added", "doubled", "done"} =>
         /\ Canonical(R)
         /\ (R.x = 0) <=> (FromBytes(R.x) = 0)
         /\ eq(R, Default) => (R = Default /\ to_bytes(R) = <<0, 0>>)
    /\ pc = "loop" => /\ Canonical(acc)
                      /\ i > 0 => Canonical(p)
    /\ pc = "projected" =>
         R2 = IF FromBytes(R.x) = 0 THEN Pt(0, R.y)
              ELSE Pt(FeSub(FromBytes(R.x), DELTA), R.y)

\* the sum of a point with x = p (a second encoding of 0) and a second
\* encoding of O has x = [0; 32] and takes the special case of the map
C14_Witness ==
    /\ pc = "projected"
    /\ P1 = Pt(PRIME, 2)
    /\ P2 = Pt(PRIME, 2^FieldBits)
    /\ R = Pt(0, 2)
    /\ R2 = Pt(0, 2)

====
